---- MODULE Spec2Model ----
(***************************************************************************)
(* i.worldview.toar: conversion of WorldView2 digital numbers to           *)
(* top-of-atmosphere spectral radiance and planetary reflectance, and the  *)
(* acquisition-time resolver (UTC string -> Julian Day -> Earth-Sun        *)
(* distance) it relies on.                                                 *)
(*                                                                         *)
(* Numbers.  Floating-point quantities are held as integers in a fixed     *)
(* unit: "micro" values are the quantity times 10^6, truncated.  A Julian  *)
(* Day is too large for that unit and is held as a record                  *)
(* [half, ms] meaning half/2 + ms/86400000 days.  Strings are sequences of *)
(* one-character strings, so that slicing, splitting and parsing are       *)
(* computed and not assumed.                                               *)
(***************************************************************************)
EXTENDS Integers, Sequences, FiniteSets, TLC

\* ------------------------------------------------------------------------
\* Fixed-point arithmetic
\* ------------------------------------------------------------------------

Micro == 1000000

Abs(x) == IF x < 0 THEN -x ELSE x

Sgn(x) == IF x < 0 THEN -1 ELSE 1

\* <<q, r>> with a * b = q * c + r and 0 <= r < c, for a, b >= 0 and
\* 0 < c, computed by doubling so that no intermediate product is formed.
RECURSIVE MulQR(_, _, _)
MulQR(a, b, c) ==
    IF b = 0 THEN <<0, 0>>
    ELSE LET h  == MulQR(a, b \div 2, c)
             ad == IF b % 2 = 1 THEN a ELSE 0
             s  == 2 * h[2] + (ad % c)
         IN  <<2 * h[1] + (ad \div c) + (s \div c), s % c>>

\* trunc(a * b / c), the sign handled apart (truncation toward zero)
MulDiv(a, b, c) == Sgn(a) * Sgn(b) * MulQR(Abs(a), Abs(b), c)[1]

\* (a * b) mod c, in 0 .. c-1, for any sign of a and b
MulMod(a, b, c) ==
    LET r == MulQR(Abs(a), Abs(b), c)[2]
    IN  IF Sgn(a) * Sgn(b) < 0 THEN (c - r) % c ELSE r

\* product of two micro values, in micro
FMul(a, b) == MulDiv(a, b, Micro)

\* ------------------------------------------------------------------------
\* Cosine of an angle in degrees (math.cos(math.radians(g)), and cos() of
\* r.mapcalc, which takes degrees): the value at whole degrees, times 10^6,
\* and linear interpolation between them.
\* ------------------------------------------------------------------------

FullTurn == 360000000

CosTable == <<
    1000000, 999848, 999391, 998630, 997564, 996195, 994522, 992546, 990268, 987688,
    984808, 981627, 978148, 974370, 970296, 965926, 961262, 956305, 951057, 945519,
    939693, 933580, 927184, 920505, 913545, 906308, 898794, 891007, 882948, 874620,
    866025, 857167, 848048, 838671, 829038, 819152, 809017, 798636, 788011, 777146,
    766044, 754710, 743145, 731354, 719340, 707107, 694658, 681998, 669131, 656059,
    642788, 629320, 615661, 601815, 587785, 573576, 559193, 544639, 529919, 515038,
    500000, 484810, 469472, 453990, 438371, 422618, 406737, 390731, 374607, 358368,
    342020, 325568, 309017, 292372, 275637, 258819, 241922, 224951, 207912, 190809,
    173648, 156434, 139173, 121869, 104528, 87156, 69756, 52336, 34899, 17452,
    0 >>

\* cosine of d micro-degrees, 0 <= d <= 90 degrees
CosQuadrant(d) ==
    LET k  == d \div Micro
        f  == (d % Micro) \div 100
        lo == CosTable[k + 1]
        hi == IF k = 90 THEN lo ELSE CosTable[k + 2]
    IN  lo + ((hi - lo) * f) \div 10000

\* cosine (micro) of an angle of d micro-degrees, any d
CosDeg(d) ==
    LET a == d % FullTurn
        b == IF a > FullTurn \div 2 THEN FullTurn - a ELSE a
    IN  IF b <= FullTurn \div 4 THEN CosQuadrant(b)
        ELSE -CosQuadrant(FullTurn \div 2 - b)

\* ------------------------------------------------------------------------
\* Text: digits, slices, parsing
\* ------------------------------------------------------------------------

DigitChars == <<"0", "1", "2", "3", "4", "5", "6", "7", "8", "9">>

IsDigit(c) == \E i \in 1..10 : DigitChars[i] = c

DigitVal(c) == (CHOOSE i \in 1..10 : DigitChars[i] = c) - 1

\* Python's s[a:b] on a sequence of characters (0-based, end excluded,
\* clipped to the length of s)
Slice(s, a, b) ==
    LET e == IF b < Len(s) THEN b ELSE Len(s)
    IN  IF a >= e THEN <<>> ELSE SubSeq(s, a + 1, e)

RECURSIVE DigitsValue(_)
DigitsValue(s) ==
    IF s = <<>> THEN 0
    ELSE 10 * DigitsValue(SubSeq(s, 1, Len(s) - 1)) + DigitVal(s[Len(s)])

AllDigits(s) == s # <<>> /\ \A i \in 1..Len(s) : IsDigit(s[i])

ParseFail == -1

\* int(text): the value of a run of decimal digits, ParseFail (ValueError)
\* for anything else
ParseInt(s) == IF AllDigits(s) THEN DigitsValue(s) ELSE ParseFail

\* float(text) for the seconds field "ss.ffffff", in milliseconds:
\* digits, then optionally a point and more digits; ParseFail otherwise
ParseSeconds(s) ==
    LET dots == {i \in 1..Len(s) : s[i] = "."}
    IN  IF dots = {} THEN
            IF AllDigits(s) THEN 1000 * DigitsValue(s) ELSE ParseFail
        ELSE LET p  == CHOOSE i \in dots : \A j \in dots : i <= j
                 ip == SubSeq(s, 1, p - 1)
                 fp == SubSeq(s, p + 1, Len(s))
                 f3 == SubSeq(fp \o <<"0", "0", "0">>, 1, 3)
             IN  IF /\ ip = <<>> \/ AllDigits(ip)
                    /\ fp = <<>> \/ AllDigits(fp)
                    /\ ip \o fp # <<>>
                 THEN 1000 * DigitsValue(ip) + DigitsValue(f3)
                 ELSE ParseFail

\* ------------------------------------------------------------------------
\* utc_to_esd.py: the acquisition-time resolver
\* ------------------------------------------------------------------------

\* One day, in the unit of the ms field of a Julian Day record
DayMs == 86400000

\* extract_time_elements(utc): the fields at their fixed offsets; months 1
\* and 2 become months 13 and 14 of the year before.  ok = FALSE stands
\* for the ValueError of int() or float() on a non-numeric field.
extract_time_elements(utc) ==
    LET y  == ParseInt(Slice(utc, 0, 4))
        m  == ParseInt(Slice(utc, 5, 7))
        d  == ParseInt(Slice(utc, 8, 10))
        hh == ParseInt(Slice(utc, 11, 13))
        mi == ParseInt(Slice(utc, 14, 16))
        ss == ParseSeconds(Slice(utc, 17, 26))
        jf == m \in {1, 2}
    IN  IF ParseFail \in {y, m, d, hh, mi, ss}
        THEN [ok |-> FALSE]
        ELSE [ok      |-> TRUE,
              year    |-> IF jf THEN y - 1 ELSE y,
              month   |-> IF jf THEN m + 12 ELSE m,
              day     |-> d,
              hours   |-> hh,
              minutes |-> mi,
              seconds |-> ss]

\* universal_time(hh, mm, ss): hours, in units of 1/3600000 hour
\* (ss is in milliseconds)
universal_time(hh, mm, ss) == hh * 3600000 + mm * 60000 + ss

\* The mutation of julian_day used to test the continuity claim: the
\* month term taken at month instead of month + 1.
julian_day_month_slip(year, month, day, ut) ==
    LET A == year \div 100
        B == 2 - A + (A \div 4)
    IN  [half |-> 2 * (((1461 * (year + 4716)) \div 4)
                       + ((306001 * month) \div 10000)
                       + day + B) - 3051,
         ms   |-> ut]

\* julian_day(year, month, day, ut):
\*   int(365.25 * (year + 4716)) + int(30.6001 * (month + 1)) + day
\*   + ut / 24.0 + B - 1525.5,  B = 2 - A + int(A / 4),  A = int(year / 100)
\* as [half, ms]: the whole and half days counted in half days, ut / 24 in
\* ms of a day.
julian_day(year, month, day, ut) ==
    LET A == year \div 100
        B == 2 - A + (A \div 4)
    IN  [half |-> 2 * (((1461 * (year + 4716)) \div 4)
                       + ((306001 * (month + 1)) \div 10000)
                       + day + B) - 3051,
         ms   |-> ut]

\* The bounds of a valid Earth-Sun distance, micro astronomical units
EsdMin == 983000

EsdMax == 1017000

\* g = 357.529 + 0.98560028 * D, D = jd - 2451545.0, in micro-degrees
\* modulo a full turn.  0.98560028 * D is formed from the half-day count
\* (0.49280014 degrees each) and the ms of a day, modulo 360 degrees.
MeanAnomaly(jd) ==
    LET Dh == jd.half - 4903090
    IN  (357529000
         + MulMod(492800, Dh, FullTurn)
         + (((14 * Dh) \div 100) % FullTurn)
         + (MulDiv(985600, jd.ms, DayMs) % FullTurn)) % FullTurn

\* The mutation of EsdFormula used to test the range claim: the
\* eccentricity term ten times too large (0.1671 for 0.01671).
EsdFormulaWrongCoefficient(g) ==
    1000140 - FMul(167100, CosDeg(g)) - FMul(140, CosDeg((2 * g) % FullTurn))

\* dES = 1.00014 - 0.01671 * cos(gr) - 0.00014 * cos(2 * gr)
EsdFormula(g) ==
    1000140 - FMul(16710, CosDeg(g)) - FMul(140, CosDeg((2 * g) % FullTurn))

\* jd_to_esd(jd): the distance when it lies in [0.983, 1.017], ValueError
\* (ok = FALSE) otherwise
jd_to_esd(jd) ==
    LET dES == EsdFormula(MeanAnomaly(jd))
    IN  IF EsdMin <= dES /\ dES <= EsdMax
        THEN [ok |-> TRUE, esd |-> dES]
        ELSE [ok |-> FALSE]

\* utc_to_esd(utc)
utc_to_esd(utc) ==
    LET acqtim == extract_time_elements(utc)
    IN  IF ~acqtim.ok THEN [ok |-> FALSE]
        ELSE jd_to_esd(julian_day(acqtim.year, acqtim.month, acqtim.day,
                                  universal_time(acqtim.hours, acqtim.minutes,
                                                 acqtim.seconds)))

\* AcquisitionTime(utc): the constructed object, or ok = FALSE with the
\* kind of the exception that ended the construction
AcquisitionTime(utc) ==
    LET e   == extract_time_elements(utc)
        ut  == universal_time(e.hours, e.minutes, e.seconds)
        jd  == julian_day(e.year, e.month, e.day, ut)
        esd == utc_to_esd(utc)
    IN  IF ~e.ok THEN [ok |-> FALSE, utc |-> utc, error |-> "ParseError"]
        ELSE IF ~esd.ok THEN [ok |-> FALSE, utc |-> utc, error |-> "RangeError"]
        ELSE [ok |-> TRUE, utc |-> utc,
              year |-> e.year, month |-> e.month, day |-> e.day,
              hours |-> e.hours, minutes |-> e.minutes, seconds |-> e.seconds,
              ut |-> ut, jd |-> jd, esd |-> esd.esd]

\* ------------------------------------------------------------------------
\* i.worldview.toar.py: names, the calibration table, the formulas
\* ------------------------------------------------------------------------

\* A name (of a band, a raster map, a suffix) is a sequence of pieces; a
\* piece is a run of characters no operation looks inside, and the
\* separators "@", "," and "." are pieces of their own.

HasPiece(s, sep) == \E i \in 1..Len(s) : s[i] = sep

\* Python's s.split(sep)
RECURSIVE Split(_, _)
Split(s, sep) ==
    IF ~HasPiece(s, sep) THEN <<s>>
    ELSE LET p == CHOOSE i \in 1..Len(s) :
                    s[i] = sep /\ \A j \in 1..(i - 1) : s[j] # sep
         IN  <<SubSeq(s, 1, p - 1)>> \o Split(SubSeq(s, p + 1, Len(s)), sep)

\* sep.join(list)
RECURSIVE Join(_, _)
Join(list, sep) ==
    IF list = <<>> THEN <<>>
    ELSE IF Len(list) = 1 THEN list[1]
    ELSE list[1] \o <<sep>> \o Join(Tail(list), sep)

\* The mutation of CF_BW_ESUN used to test the rejection of unknown
\* bands: the constants of Pan given to names the table does not hold
CF_BW_ESUN_WithDefault ==
    [b \in {<<"Pan">>, <<"Coastal">>, <<"Blue">>, <<"Green">>, <<"Yellow">>,
            <<"Red">>, <<"RedEdge">>, <<"NIR1">>, <<"NIR2">>, <<"Foo">>,
            <<"red">>} |-> <<28460000, 15808140, 56783450>>]

\* CF_BW_ESUN: band -> <<effective bandwidth, Esun, absolute calibration
\* factor>>, as the integers bandwidth * 10^8, Esun * 10^4, factor * 10^9
CF_BW_ESUN ==
    (<<"Pan">>     :> <<28460000, 15808140, 56783450>>) @@
    (<<"Coastal">> :> << 4730000, 17582229,  9295654>>) @@
    (<<"Blue">>    :> << 5430000, 19742416, 12608250>>) @@
    (<<"Green">>   :> << 6300000, 18564104,  9713071>>) @@
    (<<"Yellow">>  :> << 3740000, 17384791,  5829815>>) @@
    (<<"Red">>     :> << 5740000, 15594555, 11036230>>) @@
    (<<"RedEdge">> :> << 3930000, 13420695,  5188136>>) @@
    (<<"NIR1">>    :> << 9890000, 10697302, 12243800>>) @@
    (<<"NIR2">>    :> << 9960000,  8612866,  9042234>>)

\* "%f" % x: x rounded to six decimals, for x given as x * 10^scale10
\* (scale10 = 1000 for 10^9, 100 for 10^8), in micro
FormatF(n, per) == (n + per \div 2) \div per

\* "%f" % math.pi
PiF == 3141593

\* The strip of the mapset: band.split('@')[0] when '@' is in band
BareName(band) == IF HasPiece(band, "@") THEN Split(band, "@")[1] ELSE band

\* The mutation of LookupName used to test the strip: the name looked
\* up as given
LookupNameUnstripped(band) == band

\* The name the calibration table is asked for (lines 321-325)
LookupName(band) == BareName(band)

\* rad = "%s = %f * %s / %f" % (tmp_rad, acf, band, bw): the radiance of
\* a pixel of value dnv, micro; acf and bw as CF_BW_ESUN holds them
RadianceExpr(acf, dnv, bw) ==
    MulDiv(FormatF(acf, 1000) * dnv, Micro, FormatF(bw, 100))

\* toar = "%s = %f * %s * %f^2 / %f * cos(%f)"
\*        % (tmp_toar, math.pi, tmp_rad, esd, esun, sza)
\* as r.mapcalc evaluates it: ^ first, then * and / from left to right,
\* cos() of an angle in degrees; rad, esd, sza micro, esun * 10^4
ReflectanceExpr(rad, e, esun, z) ==
    FMul(MulDiv(FMul(FMul(PiF, rad), FMul(e, e)), 10000, esun), CosDeg(z))

\* The final name of a band's product: "%s.%s" % (band.split('@')[0],
\* outputsuffix)
OutputName(band, suffix) == Split(band, "@")[1] \o <<".">> \o suffix

\* lines 225-227: in radiance mode the default suffix becomes 'rad'
AdjustSuffix(r, suffix) ==
    IF r /\ suffix = <<"toar">> THEN <<"rad">> ELSE suffix

\* The mutation of FinalSource used to test which product is kept: the
\* radiance map renamed although a reflectance map exists
FinalSourceRadianceFirst(toarName, radName) ==
    IF radName # <<>> THEN "rad" ELSE IF toarName # <<>> THEN "toar" ELSE "none"

\* lines 387 and 399: "if tmp_toar: ... elif tmp_rad: ..."
FinalSource(toarName, radName) ==
    IF toarName # <<>> THEN "toar" ELSE IF radName # <<>> THEN "rad" ELSE "none"

units_rad == "W / sq.m. / um / ster"

units_toar == "Unitless planetary reflectance"

\* a raster map as r.mapcalc writes it: the value of its pixels, no metadata
NewRaster(v) ==
    [val |-> v, units |-> "", title |-> <<>>, description |-> <<>>]

\* ------------------------------------------------------------------------
\* Inputs
\* ------------------------------------------------------------------------

Pad2(n) == <<DigitChars[((n \div 10) % 10) + 1], DigitChars[(n % 10) + 1]>>

Pad4(n) == Pad2(n \div 100) \o Pad2(n % 100)

\* A UTC string of an .IMD file, YYYY_MM_DDThh:mm:ss.ddddddZ;
MkUtc(Y, M, D, h, m, sec) ==
    Pad4(Y) \o <<"_">> \o Pad2(M) \o <<"_">> \o Pad2(D) \o <<"T">>
    \o Pad2(h) \o <<":">> \o Pad2(m) \o <<":">> \o Pad2(sec)
    \o <<".", "0", "0", "0", "0", "0", "0", "Z", ";">>

\* The longest list of bands of an invocation
MaxBands == 3

BandIds ==
    { <<"Blue">>, <<"Green", "@", "PERMANENT">>, <<"Foo">>,
      <<"red", "@", "PERMANENT">> }

\* The lists of one to MaxBands different bands
BandLists ==
    UNION { {l \in [1..n -> BandIds] : \A i, j \in 1..n : i # j => l[i] # l[j]}
            : n \in 1..MaxBands }

Suffixes == { <<"toar">>, <<"refl">> }

KrauseUtc == MkUtc(2001, 10, 18, 18, 51, 26)

\* no string, two well-formed strings (one of January), one with a
\* letter in the month field
UtcOptions ==
    { <<>>, MkUtc(2014, 11, 12, 16, 47, 8), MkUtc(2010, 1, 15, 10, 30, 0),
      [MkUtc(2014, 11, 12, 16, 47, 8) EXCEPT ![7] = "x"] }

\* 0 stands for the option left empty
DoyOptions == {0, 100, 365}

\* Sun elevation angles, micro-degrees (53.8 and 30.0 degrees)
SeaOptions == {53800000, 30000000}

\* Digital numbers of the input maps
DNValues == {100, 2047}

\* ------------------------------------------------------------------------
\* State
\* ------------------------------------------------------------------------

VARIABLES
    options,         \* the parsed command line: band, outputsuffix, utc, doy, sea
    flags,           \* r (radiance only), k (keep region)
    dn,              \* the value of the pixels of the input maps
    pc,              \* where main() is
    err,             \* how the run failed: "none", "fatal", "ValueError", "KeyError"
    spectral_bands,  \* main: the list of bands
    outputsuffix,    \* main: the suffix in use
    radiance,        \* main: flags['r']
    keep_region,     \* main: flags['k']
    tmp,             \* main: the base of the temporary names
    acq_utc,         \* main: the AcquisitionTime object
    esd,             \* global: Earth-Sun distance, micro (0: not set)
    sza,             \* main: Sun zenith angle, micro-degrees
    idx,             \* the position of the loop over spectral_bands
    band,            \* main: the loop variable
    acf,             \* main: absolute calibration factor of the band
    bw,              \* main: effective bandwidth of the band
    tmp_rad,         \* global: name of the temporary radiance map
    tmp_toar,        \* global: name of the temporary reflectance map
    rasters,         \* the raster maps written by the run: name -> map
    region,          \* the computational region
    handlers,        \* the functions registered with atexit, in order
    t_acq,           \* resolver on its own: the object constructed last
    t_prev,          \* resolver on its own: the object constructed before
    t_jd,            \* resolver on its own: the Julian Day given to jd_to_esd
    t_esd            \* resolver on its own: what jd_to_esd returned

mainVars ==
    <<options, flags, dn, pc, err, spectral_bands, outputsuffix, radiance,
      keep_region, tmp, acq_utc, esd, sza, idx, band, acf, bw, tmp_rad,
      tmp_toar, rasters, region, handlers>>

timeVars == <<t_acq, t_prev, t_jd, t_esd>>

vars == <<mainVars, timeVars>>

NoAcq == [ok |-> FALSE, utc |-> <<>>, error |-> "unset"]

NoJd == [half |-> 0, ms |-> 0]

NoEsd == [ok |-> FALSE, unset |-> TRUE]

NoRasters == [n \in {} |-> NewRaster(0)]

CallerRegion == [temp |-> FALSE, extent |-> <<"caller">>]

TimeIdle ==
    /\ t_acq = NoAcq
    /\ t_prev = NoAcq
    /\ t_jd = NoJd
    /\ t_esd = NoEsd

\* The module-level values (lines 156-159) and the locals not yet bound
MainBlank ==
    /\ pc = "start"
    /\ err = "none"
    /\ spectral_bands = <<>>
    /\ outputsuffix = <<>>
    /\ radiance = FALSE
    /\ keep_region = FALSE
    /\ tmp = <<>>
    /\ acq_utc = NoAcq
    /\ esd = 0
    /\ sza = 0
    /\ idx = 0
    /\ band = <<>>
    /\ acf = 0
    /\ bw = 0
    /\ tmp_rad = <<>>
    /\ tmp_toar = <<>>
    /\ rasters = NoRasters
    /\ region = CallerRegion
    /\ handlers = <<"cleanup">>

Init ==
    /\ \E l \in BandLists, sfx \in Suffixes, u \in UtcOptions,
          d \in DoyOptions, a \in SeaOptions :
          options = [band |-> Join(l, ","), outputsuffix |-> sfx, utc |-> u,
                     doy |-> d, sea |-> a]
    /\ flags \in [r : BOOLEAN, k : BOOLEAN]
    /\ dn \in DNValues
    /\ MainBlank
    /\ TimeIdle

\* ------------------------------------------------------------------------
\* main()
\* ------------------------------------------------------------------------

Put(f, k, v) == (k :> v) @@ f

Remove(f, k) == [n \in (DOMAIN f) \ {k} |-> f[n]]

IsTemporary(name) ==
    Len(name) >= 2 /\ SubSeq(name, 1, 2) = <<"tmp.", "pid">>

Registered(h, f) == \E i \in 1..Len(h) : h[i] = f

\* The mutation of use_temp_region used to test that the release of the
\* region on a failed run rests on the exit handler: none is registered
use_temp_region_unregistered(r, h) ==
    [region |-> [r EXCEPT !.temp = TRUE], handlers |-> h]

\* line 262, grass.use_temp_region(): the current region is copied to a
\* temporary region, which the module works in from then on, and
\* del_temp_region is registered with atexit
use_temp_region(r, h) ==
    [region |-> [r EXCEPT !.temp = TRUE],
     handlers |-> h \o <<"del_temp_region">>]

\* line 412, grass.del_temp_region(): the temporary region, if there is
\* one, is removed and the caller's region is in effect again
del_temp_region(r) == IF r.temp THEN CallerRegion ELSE r

\* The pixels of the input map that r.mapcalc finds under the name given
\* in the expression: the maps of different bands differ
ReadInput(name) ==
    dn + (IF name = <<"Blue">> THEN 0 ELSE IF name = <<"Green">> THEN 7 ELSE 13)

\* The mutation of Mapcalc used to test that each band's radiance is
\* computed anew: a map that exists is left as it is
MapcalcKeepExisting(f, name, v) ==
    IF name \in DOMAIN f THEN f ELSE (name :> NewRaster(v)) @@ f

\* grass.mapcalc("name = expression", overwrite=True): the map is written,
\* in place of a map of that name if there is one
Mapcalc(f, name, v) == Put(f, name, NewRaster(v))

\* lines 219-264: options and flags read, the suffix adjusted, the temporary
\* region taken unless the region is kept, the temporary base name made
Setup ==
    /\ pc = "start"
    /\ spectral_bands' = Split(options.band, ",")
    /\ outputsuffix' = AdjustSuffix(flags.r, options.outputsuffix)
    /\ radiance' = flags.r
    /\ keep_region' = flags.k
    /\ LET r == IF ~flags.k
                THEN use_temp_region(region, handlers)
                ELSE [region |-> region, handlers |-> handlers]
       IN  /\ region' = r.region
           /\ handlers' = r.handlers
    /\ tmp' = <<"tmp.", "pid", ".0">>
    /\ pc' = "esd"
    /\ UNCHANGED <<options, flags, dn, err, acq_utc, esd, sza, idx, band, acf,
                   bw, tmp_rad, tmp_toar, rasters, timeVars>>

\* The mutation of EsdSource used to test the precedence of the day of
\* year: the UTC string tried first
EsdSourceUtcFirst(doy, utc) ==
    IF utc # <<>> THEN "utc" ELSE IF doy # 0 THEN "doy" ELSE "none"

\* lines 271, 275 and 279: "if doy: ... elif (not doy) and utc: ... else:"
EsdSource(doy, utc) ==
    IF doy # 0 THEN "doy" ELSE IF utc # <<>> THEN "utc" ELSE "none"

\* The mutation of FailPc used to test that a failure ends the run: the
\* error is recorded and the loop over the bands goes on
FailPcContinue == "loop"

\* where main() is once an exception or grass.fatal() has left it
FailPc == "error"

\* an uncaught exception, or grass.fatal(): main() is left where it is
Fail(kind) ==
    /\ pc' = FailPc
    /\ err' = kind

\* lines 270-283: the Earth-Sun distance from the day of year, else from
\* the UTC string, else a fatal error; then the Sun zenith angle
ResolveEsd ==
    /\ pc = "esd"
    /\ LET src == EsdSource(options.doy, options.utc)
           a   == IF src = "utc" THEN AcquisitionTime(options.utc) ELSE acq_utc
           r   == IF src = "doy"
                  THEN jd_to_esd([half |-> 2 * options.doy, ms |-> 0])
                  ELSE IF src = "utc" /\ a.ok
                  THEN [ok |-> TRUE, esd |-> a.esd]
                  ELSE [ok |-> FALSE]
       IN  IF r.ok
           THEN /\ acq_utc' = a
                /\ esd' = r.esd
                /\ sza' = 90 * Micro - options.sea
                /\ pc' = "loop"
                /\ err' = err
           ELSE /\ Fail(IF src = "none" THEN "fatal" ELSE "ValueError")
                /\ UNCHANGED <<acq_utc, esd, sza>>
    /\ UNCHANGED <<options, flags, dn, spectral_bands, outputsuffix, radiance,
                   keep_region, tmp, idx, band, acf, bw, tmp_rad, tmp_toar,
                   rasters, region, handlers,
                   timeVars>>

\* lines 288-318: the next band of the list; the region set to the band's
\* unless the region is kept
NextBand ==
    /\ pc = "loop"
    /\ idx < Len(spectral_bands)
    /\ idx' = idx + 1
    /\ band' = spectral_bands[idx + 1]
    /\ region' = IF ~keep_region
                 THEN [region EXCEPT !.extent = spectral_bands[idx + 1]]
                 ELSE region
    /\ pc' = "lookup"
    /\ UNCHANGED <<options, flags, dn, err, spectral_bands, outputsuffix,
                   radiance, keep_region, tmp, acq_utc, esd, sza, acf, bw,
                   tmp_rad, tmp_toar, rasters, handlers, timeVars>>

\* lines 320-329: the mapset stripped from the name, the calibration
\* factor and the bandwidth looked up (KeyError for a name not in the table)
Lookup ==
    /\ pc = "lookup"
    /\ LET b == LookupName(band)
       IN  /\ band' = b
           /\ IF b \in DOMAIN CF_BW_ESUN
              THEN /\ acf' = CF_BW_ESUN[b][3]
                   /\ bw' = CF_BW_ESUN[b][1]
                   /\ pc' = "radiance"
                   /\ err' = err
              ELSE /\ Fail("KeyError")
                   /\ UNCHANGED <<acf, bw>>
    /\ UNCHANGED <<options, flags, dn, spectral_bands, outputsuffix, radiance,
                   keep_region, tmp, acq_utc, esd, sza, idx, tmp_rad, tmp_toar,
                   rasters, region, handlers,
                   timeVars>>

\* lines 339-352: the temporary radiance map written (overwritten)
ToRadiance ==
    /\ pc = "radiance"
    /\ tmp_rad' = tmp \o <<".Radiance">>
    /\ rasters' = Mapcalc(rasters, tmp \o <<".Radiance">>,
                          RadianceExpr(acf, ReadInput(band), bw))
    /\ pc' = IF radiance THEN "rename" ELSE "reflectance"
    /\ UNCHANGED <<options, flags, dn, err, spectral_bands, outputsuffix,
                   radiance, keep_region, tmp, acq_utc, esd, sza, idx, band,
                   acf, bw, tmp_toar, region, handlers,
                   timeVars>>

\* lines 354-385: the temporary reflectance map written from the temporary
\* radiance map
ToReflectance ==
    /\ pc = "reflectance"
    /\ tmp_toar' = tmp \o <<".Reflectance">>
    /\ rasters' = Mapcalc(rasters, tmp \o <<".Reflectance">>,
                          ReflectanceExpr(rasters[tmp_rad].val, esd,
                                          CF_BW_ESUN[band][2], sza))
    /\ pc' = "rename"
    /\ UNCHANGED <<options, flags, dn, err, spectral_bands, outputsuffix,
                   radiance, keep_region, tmp, acq_utc, esd, sza, idx, band,
                   acf, bw, tmp_rad, region, handlers,
                   timeVars>>

\* r.support and g.rename on the map called from, which becomes the map
\* called to
SupportAndRename(from, to, title, units, description) ==
    Put(Remove(rasters, from), to,
        [rasters[from] EXCEPT !.title = title, !.units = units,
                              !.description = description])

\* lines 387-408: the reflectance map, or else the radiance map, given its
\* metadata and its final name
Rename ==
    /\ pc = "rename"
    /\ LET src == FinalSource(tmp_toar, tmp_rad)
           to  == OutputName(band, outputsuffix)
       IN  rasters' =
             IF src = "toar"
             THEN SupportAndRename(tmp_toar, to,
                    band \o <<" band (Top of Atmosphere Reflectance)">>,
                    units_toar,
                    <<"Top of Atmosphere ">> \o band
                        \o <<" band spectral Reflectance">>)
             ELSE IF src = "rad"
             THEN SupportAndRename(tmp_rad, to, <<>>, units_rad,
                    <<"Top-of-Atmosphere ">> \o band
                        \o <<" band spectral Radiance [W/m^2/sr/um]">>)
             ELSE rasters
    /\ pc' = "loop"
    /\ UNCHANGED <<options, flags, dn, err, spectral_bands, outputsuffix,
                   radiance, keep_region, tmp, acq_utc, esd, sza, idx, band,
                   acf, bw, tmp_rad, tmp_toar, region, handlers,
                   timeVars>>

\* lines 410-416: after the last band the temporary region is deleted
Finish ==
    /\ pc = "loop"
    /\ idx = Len(spectral_bands)
    /\ region' = IF ~keep_region THEN del_temp_region(region) ELSE region
    /\ pc' = "done"
    /\ UNCHANGED <<options, flags, dn, err, spectral_bands, outputsuffix,
                   radiance, keep_region, tmp, acq_utc, esd, sza, idx, band,
                   acf, bw, tmp_rad, tmp_toar, rasters, handlers, timeVars>>

\* The mutation of cleanup used to test that the maps of the bands
\* converted before a failure stay: every map of the run is removed
cleanup_rollback(f) == [n \in {} |-> f[n]]

\* lines 203-205: g.remove with the pattern tmp.<pid>*
cleanup(f) == [n \in {m \in DOMAIN f : ~IsTemporary(m)} |-> f[n]]

\* The interpreter exits, after main() returned or was left by an error,
\* and runs the functions registered with atexit: cleanup() (lines 203-205,
\* registered at line 420) removes the maps named tmp.<pid>*, and
\* del_temp_region, where use_temp_region registered it, releases the
\* temporary region
Exit ==
    /\ pc \in {"done", "error"}
    /\ rasters' = IF Registered(handlers, "cleanup")
                  THEN cleanup(rasters)
                  ELSE rasters
    /\ region' = IF Registered(handlers, "del_temp_region")
                 THEN del_temp_region(region)
                 ELSE region
    /\ pc' = "exited"
    /\ UNCHANGED <<options, flags, dn, err, spectral_bands, outputsuffix,
                   radiance, keep_region, tmp, acq_utc, esd, sza, idx, band,
                   acf, bw, tmp_rad, tmp_toar, handlers, timeVars>>

Next ==
    \/ Setup
    \/ ResolveEsd
    \/ NextBand
    \/ Lookup
    \/ ToRadiance
    \/ ToReflectance
    \/ Rename
    \/ Finish
    \/ Exit

Spec == Init /\ [][Next]_vars

\* ------------------------------------------------------------------------
\* The resolver on its own: AcquisitionTime objects constructed one after
\* the other from UTC strings, and jd_to_esd applied to the days of a year
\* ------------------------------------------------------------------------

\* The years of the UTC strings: 1999 .. 1999 + MaxYears
MaxYears == 3

TimeYears == 1999..(1999 + MaxYears)

TimeDates == { <<12, 31>>, <<1, 1>>, <<2, 28>>, <<3, 1>>, <<10, 18>> }

TimesOfDay == { <<0, 0, 0>>, <<18, 51, 26>>, <<23, 59, 59>> }

TimeUtcInputs ==
    { MkUtc(Y, md[1], md[2], t[1], t[2], t[3]) :
        Y \in TimeYears, md \in TimeDates, t \in TimesOfDay }
    \cup { [MkUtc(2001, 10, 18, 18, 51, 26) EXCEPT ![12] = "h"] }

\* The length of the run of days given to jd_to_esd
DaysInYear == 366

\* The first day of the run: the epoch of jd_to_esd (line 71)
J2000 == 2451545

TimeDays == (1..365) \cup (J2000..(J2000 + DaysInYear))

InitTime ==
    /\ options = [band |-> <<"Blue">>, outputsuffix |-> <<"toar">>,
                  utc |-> <<>>, doy |-> 0, sea |-> 53800000]
    /\ flags = [r |-> FALSE, k |-> FALSE]
    /\ dn = 100
    /\ MainBlank
    /\ TimeIdle

\* acq = AcquisitionTime(utc), for a first and then a second string
Construct ==
    /\ t_prev = NoAcq
    /\ t_jd = NoJd
    /\ \E u \in TimeUtcInputs : t_acq' = AcquisitionTime(u)
    /\ t_prev' = t_acq
    /\ t_jd' = NoJd
    /\ t_esd' = NoEsd
    /\ UNCHANGED mainVars

\* jd_to_esd(jd) for a day of the run, at noon or at the midnight after
EsdOfDay ==
    /\ TimeIdle
    /\ \E d \in TimeDays, h \in {0, 1} :
          /\ t_jd' = [half |-> 2 * d + h, ms |-> 0]
          /\ t_esd' = jd_to_esd([half |-> 2 * d + h, ms |-> 0])
    /\ t_acq' = NoAcq
    /\ t_prev' = NoAcq
    /\ UNCHANGED mainVars

NextTime ==
    \/ Construct
    \/ EsdOfDay

TimeSpec == InitTime /\ [][NextTime]_vars

\* ------------------------------------------------------------------------
\* Properties
\* ------------------------------------------------------------------------

\* The part of a band identifier before its first "@" (all of it when it
\* has none)
BeforeAt(s) ==
    IF \E i \in 1..Len(s) : s[i] = "@"
    THEN SubSeq(s, 1, (CHOOSE i \in 1..Len(s) :
                          s[i] = "@" /\ \A j \in 1..(i - 1) : s[j] # "@") - 1)
    ELSE s

\* The nine bands of the calibration table
NineBands ==
    { <<"Pan">>, <<"Coastal">>, <<"Blue">>, <<"Green">>, <<"Yellow">>,
      <<"Red">>, <<"RedEdge">>, <<"NIR1">>, <<"NIR2">> }

\* The maps of the run that are not temporary
FinalMaps == {n \in DOMAIN rasters : ~IsTemporary(n)}

\* The band a final map says it is of, in its description
ProductBand(n) ==
    SubSeq(rasters[n].description, 2, Len(rasters[n].description) - 1)

\* The final maps of band b with the given units
Products(b, units) ==
    {n \in FinalMaps : ProductBand(n) = b /\ rasters[n].units = units}

\* main() ran to its end without an error
Completed == pc \in {"done", "exited"} /\ err = "none"

\* The i-th band has been through the lookup
LookedUp(i) == i < idx \/ (i = idx /\ pc # "lookup")

\* pi * rad * esd^2 / (Esun * cos(sza)): rad, e, z micro, esun * 10^4
DividedByCosine(rad, e, esun, z) ==
    MulDiv(FMul(FMul(PiF, rad), FMul(e, e)), 10000, FMul(esun, CosDeg(z)))

\* C1: the reflectance written for a band is pi * radiance * esd^2 divided
\* by (Esun * cos(sza)), to within two millionths: the cosine of the Sun
\* zenith angle is in the divisor.
C1_ReflectanceDividedByCosine ==
    (pc = "rename" /\ ~radiance) =>
        Abs(rasters[tmp_toar].val
            - DividedByCosine(rasters[tmp_rad].val, esd,
                              CF_BW_ESUN[band][2], sza)) <= 2

\* C2: the Julian Day of the AcquisitionTime constructed for 2001-10-18 at
\* 18:51:26 is 2452201.286, to within 0.001 day.
C2_KrauseJulianDay ==
    (t_acq.ok /\ t_acq.utc = KrauseUtc) =>
        Abs((t_acq.jd.half - 2 * 2452201) * (DayMs \div 2) + t_acq.jd.ms
            - 24710400) <= 86400

\* C3, as claimed: after a run that completes, every band has a radiance
\* product, and a reflectance product exactly when the mode is radiance
\* and reflectance.
C3_RadianceAlwaysAmongProducts ==
    Completed =>
        \A i \in 1..Len(spectral_bands) :
            LET b == BeforeAt(spectral_bands[i])
            IN  /\ Products(b, units_rad) # {}
                /\ (Products(b, units_toar) # {}) <=> ~radiance

\* C3, as amended: after a run that completes, every band has exactly one
\* product, a radiance map in radiance-only mode and a reflectance map
\* otherwise, and there are no other final maps.
C3_OneProductPerBand ==
    Completed =>
        /\ Cardinality(FinalMaps) = Len(spectral_bands)
        /\ \A i \in 1..Len(spectral_bands) :
              LET b == BeforeAt(spectral_bands[i])
              IN  /\ Cardinality(Products(b, IF radiance THEN units_rad
                                             ELSE units_toar)) = 1
                  /\ Products(b, IF radiance THEN units_toar
                                 ELSE units_rad) = {}

\* A run of two bands in radiance and reflectance mode has completed and
\* left two final maps.
C3_Witness ==
    /\ Completed
    /\ ~radiance
    /\ Len(spectral_bands) = 2
    /\ Cardinality(FinalMaps) = 2

\* C4: the year and the month of a constructed AcquisitionTime are the
\* calendar year and month written in its UTC string, the month in 1..12.
C4_CalendarFieldsExposed ==
    t_acq.ok =>
        /\ t_acq.year = ParseInt(Slice(t_acq.utc, 0, 4))
        /\ t_acq.month = ParseInt(Slice(t_acq.utc, 5, 7))
        /\ t_acq.month \in 1..12

\* The acquisition time of the invocation cannot be resolved: no day of
\* year and no UTC string, or no day of year and a UTC string from which
\* no AcquisitionTime can be made (a non-numeric field, or a distance out
\* of range), or a day of year that gives a distance out of range
AcquisitionFailure ==
    \/ options.doy = 0 /\ options.utc = <<>>
    \/ options.doy = 0 /\ options.utc # <<>> /\ ~AcquisitionTime(options.utc).ok
    \/ options.doy # 0 /\ ~jd_to_esd([half |-> 2 * options.doy, ms |-> 0]).ok

\* C5: once the acquisition time has been asked for and cannot be
\* resolved, the run has failed (fatal for missing metadata, ValueError
\* otherwise), no band has been taken up and no map has been written.
C5_AcquisitionFailureIsFatal ==
    (pc \notin {"start", "esd"} /\ AcquisitionFailure) =>
        /\ pc \in {"error", "exited"}
        /\ err = (IF options.utc = <<>> THEN "fatal" ELSE "ValueError")
        /\ idx = 0
        /\ DOMAIN rasters = {}

\* A run with a letter in its UTC string and no day of year has ended.
C5_Witness ==
    /\ pc = "exited"
    /\ err = "ValueError"
    /\ options.doy = 0
    /\ options.utc # <<>>
    /\ ~AllDigits(Slice(options.utc, 5, 7))

\* C6: a band whose bare name is not one of the nine keys, once it has
\* been through the lookup, has ended the run with a KeyError at that
\* band; it has no calibration constants and no map of the run is of it.
C6_UnknownBandRejected ==
    \A i \in 1..Len(spectral_bands) :
        (LookedUp(i) /\ BeforeAt(spectral_bands[i]) \notin NineBands) =>
            /\ pc \in {"error", "exited"}
            /\ err = "KeyError"
            /\ idx = i
            /\ \A n \in DOMAIN rasters :
                  /\ n # BeforeAt(spectral_bands[i]) \o <<".">> \o outputsuffix
                  /\ rasters[n].description # <<>> =>
                        ProductBand(n) # BeforeAt(spectral_bands[i])

\* A run has ended at its second band, which is not in the table, after
\* the first band was converted.
C6_Witness ==
    /\ pc = "exited"
    /\ err = "KeyError"
    /\ idx = 2
    /\ BeforeAt(spectral_bands[2]) \notin NineBands
    /\ FinalMaps # {}

\* C7: with a day of year the Earth-Sun distance is that of jd_to_esd at
\* the day of year taken as the Julian Day (1.016577 for day 100,
\* 0.995606 for day 365); no AcquisitionTime is made from the UTC string,
\* and no acquisition-time error ends the run, whatever the string.
C7_DayOfYearOverridesUtc ==
    (options.doy # 0 /\ pc \notin {"start", "esd"}) =>
        /\ esd = (CASE options.doy = 100 -> 1016577
                    [] options.doy = 365 -> 995606
                    [] OTHER -> 0)
        /\ acq_utc = NoAcq
        /\ err \notin {"fatal", "ValueError"}

\* A run with a day of year and a UTC string with a letter in its month
\* has completed.
C7_Witness ==
    /\ Completed
    /\ pc = "exited"
    /\ options.doy = 100
    /\ options.utc # <<>>
    /\ ~AllDigits(Slice(options.utc, 5, 7))

\* The second object constructed is of January 1 of year Y + 1, the first
\* of December 31 of year Y, at the same time of day t
AcrossNewYear(Y, t) ==
    /\ t_prev.ok
    /\ t_acq.ok
    /\ t_prev.utc = MkUtc(Y, 12, 31, t[1], t[2], t[3])
    /\ t_acq.utc = MkUtc(Y + 1, 1, 1, t[1], t[2], t[3])

\* C8: the Julian Day of January 1 of year Y + 1 is that of December 31
\* of year Y at the same time plus exactly one day, January 1 entering as
\* year Y, month 13; and every object constructed holds (year - 1,
\* month + 12) for the months 1 and 2 and (year, month) for the others.
C8_NewYearContinuity ==
    /\ \A Y \in TimeYears, t \in TimesOfDay :
          AcrossNewYear(Y, t) =>
              /\ t_acq.year = Y /\ t_acq.month = 13 /\ t_acq.day = 1
              /\ t_prev.year = Y /\ t_prev.month = 12 /\ t_prev.day = 31
              /\ t_acq.jd.half - t_prev.jd.half = 2
              /\ t_acq.jd.ms = t_prev.jd.ms
    /\ t_acq.ok =>
          LET y == DigitsValue(SubSeq(t_acq.utc, 1, 4))
              m == DigitsValue(SubSeq(t_acq.utc, 6, 7))
          IN  <<t_acq.year, t_acq.month>> =
                  IF m >= 3 THEN <<y, m>> ELSE <<y - 1, m + 12>>

\* December 31 and then January 1 of the next year, at 18:51:26, have
\* been constructed.
C8_Witness ==
    \E Y \in TimeYears : AcrossNewYear(Y, <<18, 51, 26>>)

\* C9: for every day of the run jd_to_esd returns a distance, and the
\* distance returned lies in [0.983, 1.017].
C9_EsdWithinBounds ==
    t_jd # NoJd =>
        /\ t_esd.ok
        /\ 983000 <= t_esd.esd
        /\ t_esd.esd <= 1017000

\* jd_to_esd has returned a distance near the largest of the year, for a
\* Julian Day after the epoch.
C9_Witness ==
    /\ t_jd.half >= 2 * J2000
    /\ t_esd.ok
    /\ t_esd.esd >= 1016500

\* The suffix of the final names: the one given, 'rad' for the default
\* 'toar' in radiance-only mode
ExpectedSuffix ==
    IF flags.r /\ options.outputsuffix = <<"toar">>
    THEN <<"rad">> ELSE options.outputsuffix

\* The i-th band has been renamed
Renamed(i) == i < idx \/ (i = idx /\ (pc = "loop" \/ Completed))

\* C10: a band whose name before "@" is in the table passes the lookup,
\* with the constants of that bare name; the final map of every band
\* renamed is <bare name>.<suffix>, and every final map is so named,
\* the suffix being the one given except 'rad' for 'toar' in
\* radiance-only mode.
C10_BareNameAndSuffix ==
    /\ \A i \in 1..Len(spectral_bands) :
          (LookedUp(i) /\ BeforeAt(spectral_bands[i]) \in NineBands) =>
              /\ ~(err = "KeyError" /\ idx = i)
              /\ (i = idx /\ pc \in {"radiance", "reflectance", "rename"}) =>
                    /\ bw = CF_BW_ESUN[BeforeAt(spectral_bands[i])][1]
                    /\ acf = CF_BW_ESUN[BeforeAt(spectral_bands[i])][3]
    /\ FinalMaps =
          { BeforeAt(spectral_bands[i]) \o <<".">> \o ExpectedSuffix :
              i \in {j \in 1..Len(spectral_bands) : Renamed(j)} }

\* A radiance-only run with the default suffix has written Green.rad for
\* the band Green@PERMANENT.
C10_Witness ==
    /\ Completed
    /\ flags.r
    /\ options.outputsuffix = <<"toar">>
    /\ <<"Green", "@", "PERMANENT">> \in
          {spectral_bands[i] : i \in 1..Len(spectral_bands)}
    /\ <<"Green", ".", "rad">> \in DOMAIN rasters

\* The radiance of the i-th band of the list: its own digital numbers
\* with its own calibration factor and bandwidth
OwnRadiance(i) ==
    LET b == BeforeAt(spectral_bands[i])
    IN  RadianceExpr(CF_BW_ESUN[b][3], ReadInput(b), CF_BW_ESUN[b][1])

\* The reflectance of the i-th band of the list from its own radiance
OwnReflectance(i) ==
    ReflectanceExpr(OwnRadiance(i), esd,
                    CF_BW_ESUN[BeforeAt(spectral_bands[i])][2], sza)

\* C11: in radiance and reflectance mode, no temporary reflectance map
\* exists while the band's radiance is still to be computed or has just
\* been computed; the temporary radiance map read by the reflectance
\* step holds the radiance of the current band; the reflectance written
\* is the one of the current band's own radiance, and so is the final
\* reflectance map of every band renamed.
C11_ReflectanceReadsOwnRadiance ==
    ~radiance =>
        /\ pc \in {"radiance", "reflectance"} =>
              tmp \o <<".Reflectance">> \notin DOMAIN rasters
        /\ pc \in {"reflectance", "rename"} =>
              rasters[tmp_rad].val = OwnRadiance(idx)
        /\ pc = "rename" => rasters[tmp_toar].val = OwnReflectance(idx)
        /\ \A i \in 1..Len(spectral_bands) :
              Renamed(i) =>
                  rasters[BeforeAt(spectral_bands[i]) \o <<".">>
                          \o outputsuffix].val = OwnReflectance(i)

\* The reflectance of a second band has been written while the first
\* band's radiance, a different one, was computed before it.
C11_Witness ==
    /\ ~radiance
    /\ pc = "rename"
    /\ idx = 2
    /\ OwnRadiance(1) # OwnRadiance(2)
    /\ rasters[tmp_toar].val = OwnReflectance(2)
    /\ rasters[tmp_toar].val # ReflectanceExpr(OwnRadiance(1), esd,
                                  CF_BW_ESUN[band][2], sza)

\* main() is in the part of the run between the taking of the temporary
\* region and its release or a failure
InsideRun ==
    pc \in {"esd", "loop", "lookup", "radiance", "reflectance", "rename"}

\* C12: with the keep-region flag unset the temporary region taken before
\* the loop over the bands is in use while main() runs and is released on
\* every way out of the run: when main() has returned, and when the process
\* has exited after a run that failed (no source of the Earth-Sun distance,
\* an Earth-Sun distance that cannot be computed, a band that is not in the
\* table); with the flag set no temporary region is taken and the region of
\* the caller is never changed.
C12_TemporaryRegionReleased ==
    /\ flags.k => region = CallerRegion /\ ~Registered(handlers, "del_temp_region")
    /\ (~flags.k /\ InsideRun) => region.temp
    /\ pc \in {"done", "exited"} => region = CallerRegion

C12_Witness ==
    /\ ~flags.k
    /\ pc = "exited"
    /\ err = "KeyError"
    /\ idx = 2
    /\ Registered(handlers, "del_temp_region")
    /\ region = CallerRegion

\* The final name of the i-th band of the list
FinalName(i) == BeforeAt(spectral_bands[i]) \o <<".">> \o ExpectedSuffix

\* C13: the bands are taken in the order of the list, so that the final
\* maps are at any time those of the bands at the head of the list; after a
\* KeyError at the k-th band the run is over with the loop at that band:
\* the k-1 bands before it are all in the table, their final maps exist
\* with their metadata and stay when the process has exited, and there is
\* no final map of the k-th band or of a band after it.
C13_LoopStopsAtFailingBand ==
    /\ idx \in 0..Len(spectral_bands)
    /\ pc \in {"lookup", "radiance", "reflectance", "rename"} =>
          BeforeAt(band) = BeforeAt(spectral_bands[idx])
    /\ \A i \in 1..Len(spectral_bands) :
          FinalName(i) \in DOMAIN rasters => i <= idx
    /\ err = "KeyError" =>
          /\ pc \in {"error", "exited"}
          /\ idx >= 1
          /\ BeforeAt(spectral_bands[idx]) \notin NineBands
          /\ \A i \in 1..(idx - 1) :
                /\ BeforeAt(spectral_bands[i]) \in NineBands
                /\ FinalName(i) \in DOMAIN rasters
                /\ rasters[FinalName(i)].units \in {units_rad, units_toar}
          /\ FinalMaps = {FinalName(i) : i \in 1..(idx - 1)}
          /\ Cardinality(FinalMaps) = idx - 1
          /\ \A i \in idx..Len(spectral_bands) :
                FinalName(i) \notin DOMAIN rasters

\* A run of three bands has exited after a KeyError at its second band:
\* the map of the first band is there, and there is none of the third
\* band, which is in the table.
C13_Witness ==
    /\ pc = "exited"
    /\ err = "KeyError"
    /\ Len(spectral_bands) = 3
    /\ idx = 2
    /\ BeforeAt(spectral_bands[3]) \in NineBands
    /\ FinalMaps = {FinalName(1)}
    /\ FinalName(3) \notin DOMAIN rasters
====
